---- MODULE Spec2Model ----
\* Color-setting operations of p5.js (src/color/setting.js): colorMode, fill,
\* stroke, noFill, noStroke, background and clear, as a state machine over
\* one sketch instance and its renderer.
EXTENDS Integers, Sequences, FiniteSets, TLC

\* ------------------------------------------------------------------ bounds

\* Number of public calls made on the sketch in one behaviour.
MaxOps == 3

\* Largest number of range arguments passed to colorMode after the mode.
MaxRangeArgs == 5

\* ------------------------------------------------------------ color spaces

RGB == "rgb"
HSB == "hsb"
HSL == "hsl"

Spaces == {RGB, HSB, HSL}

\* Mode selectors a caller may pass: the three constants and one other value.
Modes == Spaces \cup {"bogus"}

\* Range arguments: the prefixes of these lists (zero is a value a caller
\* may pass as well).
RangeBases == {<<10, 20, 30, 2, 7, 9>>, <<100, 0, 50, 1, 3, 4>>}

RangeArgs == {SubSeq(b, 1, n) : b \in RangeBases, n \in 0..MaxRangeArgs}

\* Sizes of the canvas (width, height).
Sizes == {<<100, 100>>, <<200, 50>>}

\* --------------------------------------------------------------- arguments

\* One positional argument of fill / stroke / background.
Num(n) == [t |-> "num", n |-> n, s |-> ""]
Str(x) == [t |-> "str", n |-> 0, s |-> x]
Img == [t |-> "img", n |-> 0, s |-> "image"]
Col == [t |-> "color", n |-> 0, s |-> ""]

PaintArgs ==
  { <<Num(51)>>, <<Num(10), Num(20), Num(30)>>, <<Str("red")>>,
    <<Str("not-a-real-color")>>, <<Col>>, <<Img>>, <<Img, Num(128)>> }

\* ------------------------------------------------------- canonical colors

\* A canonical color: the space it was resolved under, the channel values
\* and the maxima they are scaled against.
Color(mode, maxes, ch) == [mode |-> mode, maxes |-> maxes, ch |-> ch]

ResolutionError == Color("error", <<>>, <<>>)

CssMaxes == <<255, 255, 255, 255>>

PrebuiltColor == Color(HSB, <<360, 100, 100, 1>>, <<180, 50, 50, 1>>)

AllNum(args) == \A i \in 1..Len(args) : args[i].t = "num"

\* The Color Resolver: raw arguments, active space, its ranges.
resolve(args, mode, maxes) ==
  IF Len(args) = 1 /\ args[1].t = "color" THEN PrebuiltColor
  ELSE IF Len(args) = 1 /\ args[1].t = "str" THEN
    IF args[1].s = "red" THEN Color(mode, CssMaxes, <<255, 0, 0, 255>>)
    ELSE ResolutionError
  ELSE IF ~AllNum(args) THEN ResolutionError
  ELSE IF Len(args) = 1 THEN
    Color(mode, maxes, <<args[1].n, args[1].n, args[1].n, maxes[4]>>)
  ELSE IF Len(args) = 2 THEN
    Color(mode, maxes, <<args[1].n, args[1].n, args[1].n, args[2].n>>)
  ELSE IF Len(args) = 3 THEN
    Color(mode, maxes, <<args[1].n, args[2].n, args[3].n, maxes[4]>>)
  ELSE IF Len(args) = 4 THEN
    Color(mode, maxes, <<args[1].n, args[2].n, args[3].n, args[4].n>>)
  ELSE ResolutionError

\* ------------------------------------------------------------------- state

VARIABLES
  _colorMode,    \* this._colorMode: the active color space
  _colorMaxes,   \* this._colorMaxes: per space, <<max1, max2, max3, maxA>>
  _doFill,       \* renderer._doFill
  _fillSet,      \* renderer._fillSet
  _doStroke,     \* renderer._doStroke
  _strokeSet,    \* renderer._strokeSet
  fillColor,     \* the color held by the renderer's fill-setter
  strokeColor,   \* the color held by the renderer's stroke-setter
  width,         \* this.width
  height,        \* this.height
  calls,         \* collaborator calls made by the most recent public call
  op,            \* the most recent public call and how it ended
  nOps           \* number of public calls made so far

vars == <<_colorMode, _colorMaxes, _doFill, _fillSet, _doStroke, _strokeSet,
          fillColor, strokeColor, width, height, calls, op, nOps>>

DefaultMaxes ==
  [sp \in Spaces |-> IF sp = RGB THEN <<255, 255, 255, 255>>
                     ELSE <<360, 100, 100, 1>>]

DefaultFill == Color(RGB, <<255, 255, 255, 255>>, <<255, 255, 255, 255>>)

DefaultStroke == Color(RGB, <<255, 255, 255, 255>>, <<0, 0, 0, 255>>)

NoOp == [name |-> "init", mode |-> "", nums |-> <<>>, args |-> <<>>,
         result |-> "none"]

Init ==
  /\ _colorMode = RGB
  /\ _colorMaxes = DefaultMaxes
  /\ _doFill = TRUE
  /\ _fillSet = FALSE
  /\ _doStroke = TRUE
  /\ _strokeSet = FALSE
  /\ fillColor = DefaultFill
  /\ strokeColor = DefaultStroke
  /\ \E sz \in Sizes : width = sz[1] /\ height = sz[2]
  /\ calls = <<>>
  /\ op = NoOp
  /\ nOps = 0

\* The sketch and its renderer at the start of a public call, as one record.
Cur ==
  [_colorMode |-> _colorMode, _colorMaxes |-> _colorMaxes,
   _doFill |-> _doFill, _fillSet |-> _fillSet,
   _doStroke |-> _doStroke, _strokeSet |-> _strokeSet,
   fillColor |-> fillColor, strokeColor |-> strokeColor,
   width |-> width, height |-> height,
   calls |-> <<>>, ret |-> "none"]

\* ------------------------------------------------------------ collaborators

\* Records a call made to a collaborator with the arguments it was given.
Invoke(s, fn, args) == [s EXCEPT !.calls = Append(@, [fn |-> fn, args |-> args])]

\* p5._validateParameters: reports, never throws, changes nothing.
_validateParameters(s, func, args) == s

\* renderer._setProperty(key, value)
_setProperty(s, key, value) == [s EXCEPT ![key] = value]

\* renderer.fill(args): resolves the color and stores it, or throws.
rendererFill(s, args) ==
  LET c == resolve(args, s._colorMode, s._colorMaxes[s._colorMode])
      r == Invoke(s, "resolve", args)
  IN IF c = ResolutionError THEN [r EXCEPT !.ret = "throw"]
     ELSE [r EXCEPT !.fillColor = c]

\* renderer.stroke(args): resolves the color and stores it, or throws.
rendererStroke(s, args) ==
  LET c == resolve(args, s._colorMode, s._colorMaxes[s._colorMode])
      r == Invoke(s, "resolve", args)
  IN IF c = ResolutionError THEN [r EXCEPT !.ret = "throw"]
     ELSE [r EXCEPT !.strokeColor = c]

\* renderer.background(args): resolves the color and paints it, or throws.
rendererBackground(s, args) ==
  LET c == resolve(args, s._colorMode, s._colorMaxes[s._colorMode])
      r == Invoke(s, "resolve", args)
  IN IF c = ResolutionError THEN [r EXCEPT !.ret = "throw"]
     ELSE Invoke(r, "paintBackground", args)

\* renderer.clear()
rendererClear(s) == Invoke(s, "clearSurface", <<>>)

\* this.image(img, x, y, w, h): blits the image, resolves no color.
image(s, img, x, y, w, h) ==
  Invoke(s, "blit", <<img, Num(x), Num(y), Num(w), Num(h)>>)

\* ------------------------------------------------------- public operations

\* Variant: the guard accepts any mode that is a non-empty string.
ValidMode_anyString(mode) == mode # ""

\* colorMode's guard on the mode selector.
ValidMode(mode) == mode = RGB \/ mode = HSB \/ mode = HSL

\* Variant: the three-maxima branch overwrites the alpha maximum as well.
colorModeMaxes_alphaToo(maxes, args) ==
  LET n == Len(args) + 1
  IN IF n = 2 THEN <<args[1], args[1], args[1], args[1]>>
     ELSE IF n = 4 THEN <<args[1], args[2], args[3], args[3]>>
     ELSE IF n = 5 THEN <<args[1], args[2], args[3], args[4]>>
     ELSE maxes

\* Variant: the last branch tests arguments.length >= 5.
colorModeMaxes_atLeast5(maxes, args) ==
  LET n == Len(args) + 1
  IN IF n = 2 THEN <<args[1], args[1], args[1], args[1]>>
     ELSE IF n = 4 THEN <<args[1], args[2], args[3], maxes[4]>>
     ELSE IF n >= 5 THEN <<args[1], args[2], args[3], args[4]>>
     ELSE maxes

\* Variant: a maximum below 1 is stored as 1.
colorModeMaxes_clamped(maxes, args) ==
  LET n == Len(args) + 1
      c(x) == IF x < 1 THEN 1 ELSE x
  IN IF n = 2 THEN <<c(args[1]), c(args[1]), c(args[1]), c(args[1])>>
     ELSE IF n = 4 THEN <<c(args[1]), c(args[2]), c(args[3]), maxes[4]>>
     ELSE IF n = 5 THEN <<c(args[1]), c(args[2]), c(args[3]), c(args[4])>>
     ELSE maxes

\* The branches on arguments.length (the mode is arguments[0]), applied to
\* the maxima of the selected space.
colorModeMaxes(maxes, args) ==
  LET n == Len(args) + 1
  IN IF n = 2 THEN <<args[1], args[1], args[1], args[1]>>
     ELSE IF n = 4 THEN <<args[1], args[2], args[3], maxes[4]>>
     ELSE IF n = 5 THEN <<args[1], args[2], args[3], args[4]>>
     ELSE maxes

\* Variant: the three spaces share one array of maxima.
colorModeSet_shared(cm, mode, args) ==
  [sp \in Spaces |-> colorModeMaxes(cm[mode], args)]

\* var maxes = this._colorMaxes[mode], then the writes through maxes.
colorModeSet(cm, mode, args) ==
  [cm EXCEPT ![mode] = colorModeMaxes(@, args)]

\* Variant: this._colorMode is assigned before the mode is tested.
colorMode_hoisted(s, mode, args) ==
  LET v == _validateParameters(s, "colorMode", args)
      m == [v EXCEPT !._colorMode = mode]
      r == IF ValidMode(mode)
           THEN [m EXCEPT !._colorMaxes = colorModeSet(@, mode, args)]
           ELSE m
  IN [r EXCEPT !.ret = "this"]

\* Variant: the colors held by the renderer follow the maxima of their space.
colorMode_rescale(s, mode, args) ==
  LET v == _validateParameters(s, "colorMode", args)
      r == IF ValidMode(mode)
           THEN [v EXCEPT !._colorMode = mode,
                          !._colorMaxes = colorModeSet(@, mode, args)]
           ELSE v
      q == [r EXCEPT !.fillColor.maxes = r._colorMaxes[r.fillColor.mode],
                     !.strokeColor.maxes = r._colorMaxes[r.strokeColor.mode]]
  IN [q EXCEPT !.ret = "this"]

\* Variant: return this sits inside the mode test.
colorMode_returnInside(s, mode, args) ==
  LET v == _validateParameters(s, "colorMode", args)
  IN IF ValidMode(mode)
     THEN [v EXCEPT !._colorMode = mode,
                    !._colorMaxes = colorModeSet(@, mode, args),
                    !.ret = "this"]
     ELSE v

colorMode(s, mode, args) ==
  LET v == _validateParameters(s, "colorMode", args)
      r == IF ValidMode(mode)
           THEN [v EXCEPT !._colorMode = mode,
                          !._colorMaxes = colorModeSet(@, mode, args)]
           ELSE v
  IN [r EXCEPT !.ret = "this"]

\* Variant: the flags are set after the renderer has taken the color.
fill_flagsAfter(s, args) ==
  LET s1 == rendererFill(Invoke(s, "renderer.fill", args), args)
  IN IF s1.ret = "throw" THEN s1
     ELSE [_setProperty(_setProperty(s1, "_fillSet", TRUE), "_doFill", TRUE)
             EXCEPT !.ret = "this"]

fill(s, args) ==
  LET s1 == _setProperty(s, "_fillSet", TRUE)
      s2 == _setProperty(s1, "_doFill", TRUE)
      s3 == rendererFill(Invoke(s2, "renderer.fill", args), args)
  IN IF s3.ret = "throw" THEN s3 ELSE [s3 EXCEPT !.ret = "this"]

\* Variant: the second flag written is the fill flag.
stroke_doFill(s, args) ==
  LET s1 == _setProperty(s, "_strokeSet", TRUE)
      s2 == _setProperty(s1, "_doFill", TRUE)
      s3 == rendererStroke(Invoke(s2, "renderer.stroke", args), args)
  IN IF s3.ret = "throw" THEN s3 ELSE [s3 EXCEPT !.ret = "this"]

stroke(s, args) ==
  LET s1 == _setProperty(s, "_strokeSet", TRUE)
      s2 == _setProperty(s1, "_doStroke", TRUE)
      s3 == rendererStroke(Invoke(s2, "renderer.stroke", args), args)
  IN IF s3.ret = "throw" THEN s3 ELSE [s3 EXCEPT !.ret = "this"]

\* Variant: noFill also forgets that fill was set.
noFill_forgets(s) ==
  [_setProperty(_setProperty(s, "_doFill", FALSE), "_fillSet", FALSE)
     EXCEPT !.ret = "this"]

noFill(s) == [_setProperty(s, "_doFill", FALSE) EXCEPT !.ret = "this"]

\* Variant: noStroke also forgets that stroke was set.
noStroke_forgets(s) ==
  [_setProperty(_setProperty(s, "_doStroke", FALSE), "_strokeSet", FALSE)
     EXCEPT !.ret = "this"]

\* Variant: noStroke writes the fill flag.
noStroke_doFill(s) == [_setProperty(s, "_doFill", FALSE) EXCEPT !.ret = "this"]

noStroke(s) == [_setProperty(s, "_doStroke", FALSE) EXCEPT !.ret = "this"]

\* arguments[0] instanceof p5.Image
IsImage(args) == Len(args) > 0 /\ args[1].t = "img"

\* Variant: the color path also runs after the blit.
background_both(s, args) ==
  LET s1 == IF IsImage(args)
            THEN image(s, args[1], 0, 0, s.width, s.height)
            ELSE s
      s2 == rendererBackground(Invoke(s1, "renderer.background", args), args)
  IN IF s2.ret = "throw" THEN s2 ELSE [s2 EXCEPT !.ret = "this"]

\* Variant: background turns the fill flag on before it paints, as fill does.
background_doFill(s, args) ==
  LET s0 == _setProperty(s, "_doFill", TRUE)
      s1 == IF IsImage(args)
            THEN image(s0, args[1], 0, 0, s0.width, s0.height)
            ELSE rendererBackground(Invoke(s0, "renderer.background", args),
                                    args)
  IN IF s1.ret = "throw" THEN s1 ELSE [s1 EXCEPT !.ret = "this"]

background(s, args) ==
  LET s1 == IF IsImage(args)
            THEN image(s, args[1], 0, 0, s.width, s.height)
            ELSE rendererBackground(Invoke(s, "renderer.background", args),
                                    args)
  IN IF s1.ret = "throw" THEN s1 ELSE [s1 EXCEPT !.ret = "this"]

\* Variant: clear also puts the paint flags back to their initial values.
clear_resets(s) ==
  LET s1 == rendererClear(Invoke(s, "renderer.clear", <<>>))
      s2 == _setProperty(_setProperty(s1, "_doFill", TRUE), "_fillSet", FALSE)
  IN [s2 EXCEPT !.ret = "this"]

clear(s) == [rendererClear(Invoke(s, "renderer.clear", <<>>)) EXCEPT !.ret = "this"]

\* ----------------------------------------------------------------- actions

\* One public call: the sketch and renderer become r, the call is recorded.
Do(name, mode, nums, args, r) ==
  /\ nOps < MaxOps
  /\ nOps' = nOps + 1
  /\ _colorMode' = r._colorMode
  /\ _colorMaxes' = r._colorMaxes
  /\ _doFill' = r._doFill
  /\ _fillSet' = r._fillSet
  /\ _doStroke' = r._doStroke
  /\ _strokeSet' = r._strokeSet
  /\ fillColor' = r.fillColor
  /\ strokeColor' = r.strokeColor
  /\ width' = r.width
  /\ height' = r.height
  /\ calls' = r.calls
  /\ op' = [name |-> name, mode |-> mode, nums |-> nums, args |-> args,
            result |-> r.ret]

ColorMode ==
  \E mode \in Modes, args \in RangeArgs :
    Do("colorMode", mode, args, <<>>, colorMode(Cur, mode, args))

Fill == \E args \in PaintArgs : Do("fill", "", <<>>, args, fill(Cur, args))

Stroke == \E args \in PaintArgs : Do("stroke", "", <<>>, args, stroke(Cur, args))

NoFill == Do("noFill", "", <<>>, <<>>, noFill(Cur))

NoStroke == Do("noStroke", "", <<>>, <<>>, noStroke(Cur))

Background ==
  \E args \in PaintArgs :
    Do("background", "", <<>>, args, background(Cur, args))

Clear == Do("clear", "", <<>>, <<>>, clear(Cur))

Next ==
  \/ ColorMode
  \/ Fill
  \/ Stroke
  \/ NoFill
  \/ NoStroke
  \/ Background
  \/ Clear

Spec == Init /\ [][Next]_vars

\* ------------------------------------------------------------------ claims

\* The step just taken was colorMode with one of the three valid spaces.
ValidModeCall == op'.name = "colorMode" /\ op'.mode \in Spaces

\* The calls of the most recent public call that went to collaborator fn.
CallsTo(fn) == {i \in DOMAIN calls : calls[i].fn = fn}

\* C1: a colorMode call with a valid space S makes S the active space and
\* updates the maxima of S by the number of range arguments: none leaves
\* them unchanged, one sets all four to it, three set the first three and
\* keep the previous alpha maximum, four set all four.
C1_ArityRule ==
  [][ValidModeCall =>
       LET S == op'.mode
           a == op'.nums
           n == Len(a)
       IN /\ _colorMode' = S
          /\ (n = 0) => _colorMaxes'[S] = _colorMaxes[S]
          /\ (n = 1) => _colorMaxes'[S] = <<a[1], a[1], a[1], a[1]>>
          /\ (n = 3) => _colorMaxes'[S] = <<a[1], a[2], a[3], _colorMaxes[S][4]>>
          /\ (n = 4) => _colorMaxes'[S] = <<a[1], a[2], a[3], a[4]>>]_vars

\* C1 witness: colorMode(RGB, 10, 20, 30) after colorMode(RGB, 100) kept the
\* alpha maximum 100.
C1_Witness ==
  /\ op.name = "colorMode" /\ op.mode = RGB /\ op.nums = <<10, 20, 30>>
  /\ _colorMode = RGB
  /\ _colorMaxes[RGB] = <<10, 20, 30, 100>>

\* C2: a colorMode call leaves the maxima of every space other than the one
\* it names unchanged, and colorMode(S) without range arguments makes S
\* active and leaves all maxima unchanged; so after colorMode(S1, x),
\* colorMode(S2, y), colorMode(S1) the ranges of S1 are those set by x.
C2_ModeIndependence ==
  [][op'.name = "colorMode" =>
       /\ \A sp \in Spaces \ {op'.mode} : _colorMaxes'[sp] = _colorMaxes[sp]
       /\ (op'.mode \in Spaces /\ op'.nums = <<>>) =>
            (_colorMode' = op'.mode /\ _colorMaxes' = _colorMaxes)]_vars

\* C2 witness: colorMode(RGB, 10); colorMode(HSB, 100); colorMode(RGB).
C2_Witness ==
  /\ op.name = "colorMode" /\ op.mode = RGB /\ op.nums = <<>>
  /\ _colorMode = RGB
  /\ _colorMaxes[RGB] = <<10, 10, 10, 10>>
  /\ _colorMaxes[HSB] = <<100, 100, 100, 100>>
  /\ _colorMaxes[HSL] = DefaultMaxes[HSL]

\* C3: a colorMode call whose mode is none of RGB, HSB, HSL changes neither
\* the active space nor any maxima, whatever range arguments it carries, and
\* returns normally.
C3_InvalidModeNoOp ==
  [][(op'.name = "colorMode" /\ op'.mode \notin Spaces) =>
       /\ _colorMode' = _colorMode
       /\ _colorMaxes' = _colorMaxes
       /\ op'.result = "this"]_vars

\* C3 witness: colorMode('bogus', 100) while HSB is active with changed maxima.
C3_Witness ==
  /\ op.name = "colorMode" /\ op.mode = "bogus" /\ op.nums = <<100>>
  /\ _colorMode = HSB
  /\ _colorMaxes[HSB] = <<10, 20, 30, 2>>

\* C4: a colorMode call with a valid space S and two, or more than four,
\* range arguments makes S active, changes no maxima and returns normally.
C4_MalformedArity ==
  [][(ValidModeCall /\ Len(op'.nums) \notin {0, 1, 3, 4}) =>
       /\ _colorMode' = op'.mode
       /\ _colorMaxes' = _colorMaxes
       /\ op'.result = "this"]_vars

\* C4 witness: a colorMode(HSL, ...) call with five range arguments, made as
\* the second call: HSL is active and all maxima are still the defaults.
C4_Witness ==
  /\ op.name = "colorMode" /\ op.mode = HSL /\ Len(op.nums) = 5
  /\ _colorMode = HSL
  /\ _colorMaxes = DefaultMaxes
  /\ nOps = 2

\* C5: every fill call leaves _fillSet and _doFill true; when the color
\* does not resolve, the call throws and the renderer keeps the fill color
\* it had.
C5_FillFlagOrdering ==
  [][op'.name = "fill" =>
       /\ _fillSet' /\ _doFill'
       /\ resolve(op'.args, _colorMode, _colorMaxes[_colorMode]) = ResolutionError
            => (op'.result = "throw" /\ fillColor' = fillColor)]_vars

\* C5 witness: fill('not-a-real-color') threw and fill is on and set.
C5_Witness ==
  /\ op.name = "fill" /\ op.args = <<Str("not-a-real-color")>>
  /\ op.result = "throw"
  /\ _doFill /\ _fillSet
  /\ fillColor = DefaultFill

\* C6: every stroke call leaves _strokeSet and _doStroke true, also when the
\* color does not resolve, hands its arguments to renderer.stroke exactly
\* once, and changes none of _doFill, _fillSet and the fill color.
C6_StrokeContract ==
  [][op'.name = "stroke" =>
       /\ _strokeSet' /\ _doStroke'
       /\ \E i \in DOMAIN calls' :
            /\ calls'[i] = [fn |-> "renderer.stroke", args |-> op'.args]
            /\ \A j \in DOMAIN calls' :
                 calls'[j].fn = "renderer.stroke" => j = i
       /\ resolve(op'.args, _colorMode, _colorMaxes[_colorMode]) = ResolutionError
            => (op'.result = "throw" /\ strokeColor' = strokeColor)
       /\ UNCHANGED <<_doFill, _fillSet, fillColor>>]_vars

\* C6 witness: a stroke call that threw after noStroke and noFill.
C6_Witness ==
  /\ op.name = "stroke" /\ op.result = "throw"
  /\ _doStroke /\ _strokeSet
  /\ ~_doFill /\ ~_fillSet
  /\ nOps = 2

\* C7: noFill turns _doFill off and noStroke turns _doStroke off; each
\* leaves every other flag, the active space, all maxima and both renderer
\* colors unchanged.
C7_NoFillNoStroke ==
  [][/\ op'.name = "noFill" =>
          /\ ~_doFill'
          /\ UNCHANGED <<_fillSet, _doStroke, _strokeSet, _colorMode,
                         _colorMaxes, fillColor, strokeColor>>
     /\ op'.name = "noStroke" =>
          /\ ~_doStroke'
          /\ UNCHANGED <<_strokeSet, _doFill, _fillSet, _colorMode,
                         _colorMaxes, fillColor, strokeColor>>]_vars

\* C7 witness: noFill after fill(51): fill is off and still marked as set.
C7_Witness ==
  /\ op.name = "noFill"
  /\ ~_doFill /\ _fillSet
  /\ fillColor.ch = <<51, 51, 51, 255>>

\* C8: a background call runs exactly one of the two paths; with an image
\* as its sole argument it blits that image at (0, 0) with the canvas width
\* and height and neither resolves a color nor reaches renderer.background;
\* with a first argument that is no image it hands its arguments to
\* renderer.background and never blits.
C8_BackgroundPaths ==
  op.name = "background" =>
    /\ Cardinality(CallsTo("blit")) + Cardinality(CallsTo("renderer.background")) = 1
    /\ op.args = <<Img>> =>
         calls = <<[fn |-> "blit",
                    args |-> <<Img, Num(0), Num(0), Num(width), Num(height)>>]>>
    /\ ~IsImage(op.args) =>
         /\ CallsTo("blit") = {}
         /\ calls[1] = [fn |-> "renderer.background", args |-> op.args]

\* C8 witness: background(img) on the 200 x 50 canvas.
C8_Witness ==
  /\ op.name = "background" /\ op.args = <<Img>>
  /\ width = 200 /\ height = 50
  /\ CallsTo("blit") = {1}
  /\ CallsTo("resolve") = {}

\* C9: a background call whose first argument is an image and that carries
\* further arguments is rejected as an error and performs no blit.
C9_ImageWithExtraArgsRejected ==
  (op.name = "background" /\ IsImage(op.args) /\ Len(op.args) > 1) =>
    (op.result = "throw" /\ CallsTo("blit") = {})

\* C10: no colorMode call changes a color already resolved: the colors held
\* by the renderer keep their channel values, their maxima and their space.
C10_ColorStability ==
  [][op'.name = "colorMode" =>
       /\ fillColor' = fillColor
       /\ strokeColor' = strokeColor]_vars

\* C10 witness: the fill color resolved by fill(51) under RGB with maxima
\* 255 is still held after colorMode changed the RGB maxima.
C10_Witness ==
  /\ op.name = "colorMode" /\ op.mode = RGB
  /\ fillColor = Color(RGB, <<255, 255, 255, 255>>, <<51, 51, 51, 255>>)
  /\ _colorMaxes[RGB] = <<100, 100, 100, 100>>

\* The four paint flags.
flags == <<_doFill, _fillSet, _doStroke, _strokeSet>>

\* C11: only colorMode changes the active space or any maxima, and only
\* fill, stroke, noFill and noStroke change any of the four paint flags;
\* background, on its image path and on its color path, and clear change
\* neither.
C11_MutationConfined ==
  [][/\ op'.name # "colorMode" =>
          UNCHANGED <<_colorMode, _colorMaxes>>
     /\ op'.name \notin {"fill", "stroke", "noFill", "noStroke"} =>
          UNCHANGED flags
     /\ op'.name \in {"background", "clear"} =>
          UNCHANGED <<_colorMode, _colorMaxes, flags>>]_vars

\* C11 witness: clear after noFill and stroke: the flags are as those two
\* calls left them.
C11_Witness ==
  /\ op.name = "clear" /\ nOps = 3
  /\ ~_doFill /\ ~_fillSet
  /\ _doStroke /\ _strokeSet

\* The arguments of the step just taken resolve to a color in the state the
\* call started from.
Resolves ==
  resolve(op'.args, _colorMode, _colorMaxes[_colorMode]) # ResolutionError

\* C12: every public call that does not throw returns the sketch itself:
\* colorMode with any mode and any number of range arguments, noFill,
\* noStroke and clear always; fill and stroke whenever their arguments
\* resolve; background whenever its first argument is an image or its
\* arguments resolve.
C12_Chainable ==
  [][/\ op'.name \in {"colorMode", "noFill", "noStroke", "clear"} =>
          op'.result = "this"
     /\ (op'.name \in {"fill", "stroke"} /\ Resolves) =>
          op'.result = "this"
     /\ (op'.name = "background" /\ (IsImage(op'.args) \/ Resolves)) =>
          op'.result = "this"]_vars

\* C12 witness: colorMode('bogus', 10, 20), an invalid mode with a malformed
\* number of range arguments, returned the sketch.
C12_Witness ==
  /\ op.name = "colorMode" /\ op.mode = "bogus" /\ op.nums = <<10, 20>>
  /\ op.result = "this"

\* C13 (as claimed): the maxima of every space are four positive numbers in
\* every reachable state.
C13_PositiveRanges ==
  \A sp \in Spaces :
    /\ Len(_colorMaxes[sp]) = 4
    /\ \A i \in 1..4 : _colorMaxes[sp][i] > 0

\* C13 (amended): the maxima of every space are always four values, and a
\* step changes an entry of space S only if it is a colorMode call for S,
\* and then to one of the range values of that call, stored as passed: no
\* check on zero or sign is made.
C13_RangesStoredAsPassed ==
  [][\A sp \in Spaces :
       /\ Len(_colorMaxes'[sp]) = 4
       /\ \A i \in 1..4 :
            \/ _colorMaxes'[sp][i] = _colorMaxes[sp][i]
            \/ /\ op'.name = "colorMode" /\ op'.mode = sp
               /\ \E j \in DOMAIN op'.nums :
                    op'.nums[j] = _colorMaxes'[sp][i]]_vars

\* C13 witness: colorMode(RGB, 100, 0, 50) left a zero maximum in RGB.
C13_Witness ==
  /\ op.name = "colorMode" /\ op.mode = RGB /\ op.nums = <<100, 0, 50>>
  /\ _colorMaxes[RGB] = <<100, 0, 50, 255>>

\* C14: fill and stroke start enabled; a fill call leaves _doFill true, a
\* noFill call leaves it false and every other call leaves it as it was, so
\* _doFill is true exactly when the latest of the fill / noFill calls was
\* fill or there was none; likewise _doStroke with stroke / noStroke; and
\* while further calls are made, a fill call that enables fill is possible.
C14_EnableFlags ==
  /\ [](nOps = 0 => (_doFill /\ _doStroke))
  /\ [][/\ _doFill' = IF op'.name = "fill" THEN TRUE
                      ELSE IF op'.name = "noFill" THEN FALSE
                      ELSE _doFill
        /\ _doStroke' = IF op'.name = "stroke" THEN TRUE
                        ELSE IF op'.name = "noStroke" THEN FALSE
                        ELSE _doStroke]_vars
  /\ [](nOps < MaxOps => ENABLED (Fill /\ _doFill'))

\* C14 witness: fill, noFill, then colorMode: fill is still off after the
\* interleaved call, stroke is still in its initial enabled state.
C14_Witness ==
  /\ op.name = "colorMode" /\ nOps = 3
  /\ _fillSet /\ ~_doFill
  /\ _doStroke /\ ~_strokeSet

\* C15: a fill, stroke or background call that throws because its color
\* does not resolve changes nothing but the flag pair of the calling
\* operation (none for background): the active space, all maxima, both
\* renderer colors and the other paint's flags are as before the call.
C15_FailureLocality ==
  [][op'.result = "throw" =>
       /\ op'.name \in {"fill", "stroke", "background"}
       /\ UNCHANGED <<_colorMode, _colorMaxes, fillColor, strokeColor>>
       /\ op'.name = "fill" => UNCHANGED <<_doStroke, _strokeSet>>
       /\ op'.name = "stroke" => UNCHANGED <<_doFill, _fillSet>>
       /\ op'.name = "background" => UNCHANGED flags]_vars

\* C15 witness: a background call that threw after noFill and noStroke.
C15_Witness ==
  /\ op.name = "background" /\ op.result = "throw"
  /\ ~_doFill /\ ~_doStroke
  /\ CallsTo("paintBackground") = {}

\* C16: in every reachable state the active space is RGB, HSB or HSL and
\* the maxima are kept for exactly these three, so the ranges of the active
\* space are always defined.
C16_ActiveSpaceValid ==
  /\ _colorMode \in Spaces
  /\ DOMAIN _colorMaxes = Spaces
  /\ Len(_colorMaxes[_colorMode]) = 4

\* C16 witness: colorMode('bogus', 100, 0, 50, 1) while HSL is active.
C16_Witness ==
  /\ op.name = "colorMode" /\ op.mode = "bogus" /\ Len(op.nums) = 4
  /\ _colorMode = HSL

\* C17: both explicitly-set flags start false; _fillSet is true after a
\* step exactly if it was true before or the step is a fill call, and
\* _strokeSet likewise with stroke: each is true exactly when its setter
\* has been called, and no call resets it.
C17_SetFlagsMonotone ==
  /\ [](nOps = 0 => (~_fillSet /\ ~_strokeSet))
  /\ [][/\ _fillSet' = (_fillSet \/ op'.name = "fill")
        /\ _strokeSet' = (_strokeSet \/ op'.name = "stroke")]_vars

\* C17 witness: stroke, noStroke, then noFill: _strokeSet is still true and
\* _fillSet, fill never having been called, is false.
C17_Witness ==
  /\ op.name = "noFill" /\ nOps = 3
  /\ _strokeSet /\ ~_doStroke
  /\ ~_fillSet /\ ~_doFill

====
